---- MODULE Spec2Model ----
(***************************************************************************)
(* A model of src/main.py: a multi-tenant transcript ingestion API.        *)
(*                                                                         *)
(* State: the in-memory store DB (tenant -> conversation -> record) and    *)
(* the background tasks that were scheduled with add_task and have not     *)
(* run yet.  One action per request handler, one per pipeline.  A pipeline *)
(* has a single suspension point (asyncio.sleep) in front of its body, so  *)
(* the body after the sleep is one atomic step of the event loop.          *)
(* Queued tasks may wake in any order.  The two random draws are taken     *)
(* from samples that hold the ends of their intervals.                     *)
(*                                                                         *)
(* Scores are integers in thousandths (round(x, 3)): 0.8 is 800.           *)
(* A text is a run-length encoded string: a sequence of runs <<ch, n>>,    *)
(* n >= 1 copies of the character ch, adjacent runs of different           *)
(* characters.  len, strip and the substring test are computed on that     *)
(* encoding, so texts of 5000 characters are ordinary values.              *)
(***************************************************************************)
EXTENDS Integers, Sequences, FiniteSets, TLC

VARIABLES
    db,      \* DB: tenant_id -> (conversation_id -> result record)
    tasks,   \* background tasks added with add_task and not yet run
    nreq,    \* number of background tasks scheduled so far
    writer,  \* history: per key, the pipeline that last wrote the record
    last     \* history: the last step taken (a request and its response, or a pipeline run)

vars == <<db, tasks, nreq, writer, last>>

----------------------------------------------------------------------------
(* Bounds of the model *)

\* Background tasks scheduled over a whole run.
MaxRequests == 3

----------------------------------------------------------------------------
(* Program constants *)

\* len(v) > 5000
MaxTextLen == 5000
\* base_sentiment = 0.8, in thousandths
base_sentiment == 800
\* random.uniform(-0.1, 0.1), in thousandths
EnrichVarMin == -100
EnrichVarMax == 100
\* random.uniform(-0.5, 0.1), in thousandths
RescoreVarMin == -500
RescoreVarMax == 100
\* max(0.0, min(1.0, ...)), in thousandths
ScoreMin == 0
ScoreMax == 1000
\* new_score < 0.5, in thousandths
ReviewThreshold == 500

----------------------------------------------------------------------------
(* Inputs *)

Tenants == {"acme", "other"}
Convs == {"c1", "c2"}

\* The X-Tenant-Id header of a request: <<>> when the header is absent,
\* <<v>> when it is present with value v (v may be the empty string).
Headers == {<<>>, <<"">>} \cup {<<t>> : t \in Tenants}

Run(ch, n) == <<ch, n>>
Money == <<Run("m", 1), Run("o", 1), Run("n", 1), Run("e", 1), Run("y", 1)>>

TextEmpty == <<>>
TextBlank == <<Run(" ", 3)>>
TextHi == <<Run("h", 1), Run("i", 1)>>
TextMoney == <<Run(" ", 1)>> \o Money
TextCapMoney == <<Run("M", 1), Run("o", 1), Run("n", 1), Run("e", 1), Run("y", 1)>>
TextMoneey == <<Run("m", 1), Run("o", 1), Run("n", 1), Run("e", 2), Run("y", 1)>>
TextMax == <<Run("a", MaxTextLen)>>
TextOver == <<Run("a", MaxTextLen + 1)>>
TextPadded == <<Run(" ", 1), Run("a", MaxTextLen - 1), Run(" ", 1)>>
TextBlankOver == <<Run(" ", MaxTextLen + 1)>>

Texts == {TextEmpty, TextBlank, TextHi, TextMoney, TextCapMoney, TextMoneey,
          TextMax, TextOver, TextPadded, TextBlankOver}

\* Samples of the two random draws, the ends of each interval included.
EnrichVariances == {EnrichVarMin, EnrichVarMax}
RescoreVariances == {RescoreVarMin, -200, RescoreVarMax}

----------------------------------------------------------------------------
(* Python values *)

\* None / a value: <<>> or <<x>>.
None == <<>>
Some(x) == <<x>>

\* {} : the empty dict.
EmptyDict == [k \in {} |-> None]

\* d.get(k): None when the key is missing.
dict_get(d, k) == IF k \in DOMAIN d THEN Some(d[k]) ELSE None

\* d.get(k, {})
dict_get_or_empty(d, k) == IF k \in DOMAIN d THEN d[k] ELSE EmptyDict

\* d[k] = x
dict_set(d, k, x) == [j \in DOMAIN d \cup {k} |-> IF j = k THEN x ELSE d[j]]

----------------------------------------------------------------------------
(* Strings (run-length encoded) *)

Whitespace == {" ", "\t", "\n"}

RECURSIVE len(_)
len(v) == IF v = <<>> THEN 0 ELSE v[1][2] + len(Tail(v))

RECURSIVE lstrip(_)
lstrip(v) ==
    IF v # <<>> /\ v[1][1] \in Whitespace THEN lstrip(Tail(v)) ELSE v

RECURSIVE rstrip(_)
rstrip(v) ==
    IF v # <<>> /\ v[Len(v)][1] \in Whitespace
    THEN rstrip(SubSeq(v, 1, Len(v) - 1))
    ELSE v

\* v.strip()
strip(v) == rstrip(lstrip(v))

\* pat in v, for a pattern of at least two characters in which adjacent
\* characters differ: the pattern occupies consecutive runs, the inner ones
\* of exactly one character.
contains(v, pat) ==
    \E i \in 1..(Len(v) - Len(pat) + 1) :
        \A j \in 1..Len(pat) :
            /\ v[i + j - 1][1] = pat[j][1]
            /\ (1 < j /\ j < Len(pat)) => v[i + j - 1][2] = 1

----------------------------------------------------------------------------
(* TranscriptPayload *)

\* A validator that measures the stripped text.
validate_text_stripped_len(v) ==
    IF v = <<>> \/ strip(v) = <<>>
    THEN Some("Text field cannot be empty")
    ELSE IF len(strip(v)) > MaxTextLen
    THEN Some("Text field cannot exceed 5000 characters")
    ELSE None

\* A validator whose limit is off by one.
validate_text_limit_excluded(v) ==
    IF v = <<>> \/ strip(v) = <<>>
    THEN Some("Text field cannot be empty")
    ELSE IF len(v) >= MaxTextLen
    THEN Some("Text field cannot exceed 5000 characters")
    ELSE None

\* The field validator of text: None when v is accepted, else the error raised.
validate_text(v) ==
    IF v = <<>> \/ strip(v) = <<>>
    THEN Some("Text field cannot be empty")
    ELSE IF len(v) > MaxTextLen
    THEN Some("Text field cannot exceed 5000 characters")
    ELSE None

TranscriptPayload(conversation_id, text) ==
    [conversation_id |-> conversation_id, text |-> text]

\* response_model=AgentResponse: the fields of a record that a fetch returns.
AgentResponse(item) ==
    [conversation_id |-> item.conversation_id,
     sentiment_score |-> item.sentiment_score,
     summary |-> item.summary,
     tags |-> item.tags,
     status |-> item.status]

----------------------------------------------------------------------------
(* Pipelines: the body after the sleep, as a function of the store *)

\* round(base_sentiment + variance, 3)
enrich_score(variance) == base_sentiment + variance

enrich_tags(text) ==
    IF contains(text, Money) THEN <<"finance", "risk">> ELSE <<"general">>

enrich_result(tenant_id, data, variance) ==
    [conversation_id |-> data.conversation_id,
     sentiment_score |-> enrich_score(variance),
     summary |-> <<"Processed text length ", len(data.text), ".">>,
     tags |-> enrich_tags(data.text),
     status |-> "COMPLETED",
     tenant_id |-> tenant_id]

\* An enrichment that keeps the record a key already has.
run_data_pipeline_keep_prior(tenant_id, data, d, variance) ==
    LET d1 == IF tenant_id \notin DOMAIN d
              THEN dict_set(d, tenant_id, EmptyDict)
              ELSE d
    IN  IF data.conversation_id \in DOMAIN d1[tenant_id]
        THEN d1
        ELSE dict_set(d1, tenant_id,
                      dict_set(d1[tenant_id], data.conversation_id,
                               enrich_result(tenant_id, data, variance)))

\* An enrichment that returns after creating the sub-mapping of a new tenant.
run_data_pipeline_new_tenant_returns(tenant_id, data, d, variance) ==
    IF tenant_id \notin DOMAIN d
    THEN dict_set(d, tenant_id, EmptyDict)
    ELSE dict_set(d, tenant_id,
                  dict_set(d[tenant_id], data.conversation_id,
                           enrich_result(tenant_id, data, variance)))

\* An enrichment that starts the tenant's sub-mapping afresh on every run.
run_data_pipeline_resets_tenant(tenant_id, data, d, variance) ==
    LET d1 == dict_set(d, tenant_id, EmptyDict)
    IN  dict_set(d1, tenant_id,
                 dict_set(d1[tenant_id], data.conversation_id,
                          enrich_result(tenant_id, data, variance)))

\* The store after run_data_pipeline(tenant_id, data, d).
run_data_pipeline(tenant_id, data, d, variance) ==
    LET d1 == IF tenant_id \notin DOMAIN d
              THEN dict_set(d, tenant_id, EmptyDict)
              ELSE d
    IN  dict_set(d1, tenant_id,
                 dict_set(d1[tenant_id], data.conversation_id,
                          enrich_result(tenant_id, data, variance)))

Max(a, b) == IF a >= b THEN a ELSE b
Min(a, b) == IF a <= b THEN a ELSE b

\* A new score that is not clamped.
rescore_score_unclamped(old_score, variance) == old_score + variance

\* A new score with the perturbation subtracted.
rescore_score_subtracted(old_score, variance) ==
    Max(ScoreMin, Min(ScoreMax, old_score - variance))

\* max(0.0, min(1.0, round(old_score + variance, 3)))
rescore_score(old_score, variance) ==
    Max(ScoreMin, Min(ScoreMax, old_score + variance))

InSeq(x, s) == \E i \in 1..Len(s) : s[i] = x

\* A tagging that does not look for the tag before appending it.
rescore_tags_always_append(tags, new_score) ==
    IF new_score < ReviewThreshold
    THEN Append(tags, "review_required")
    ELSE tags

\* A tagging that puts the tag in front.
rescore_tags_prepend(tags, new_score) ==
    IF new_score < ReviewThreshold /\ ~InSeq("review_required", tags)
    THEN <<"review_required">> \o tags
    ELSE tags

rescore_tags(tags, new_score) ==
    IF new_score < ReviewThreshold /\ ~InSeq("review_required", tags)
    THEN Append(tags, "review_required")
    ELSE tags

\* A rescore that starts from the score the previous rescore run on the same
\* key had read (both runs read before either wrote).
run_rescore_pipeline_stale_read(tenant_id, conversation_id, d, variance) ==
    LET tenant_db == dict_get_or_empty(d, tenant_id)
        existing_transcript == dict_get(tenant_db, conversation_id)
        stale == /\ last.op = "run_rescore_pipeline"
                 /\ last.header = Some(tenant_id)
                 /\ last.conversation_id = conversation_id
                 /\ last.body # None
    IN  IF existing_transcript = None
        THEN d
        ELSE LET old == existing_transcript[1]
                 old_score == IF stale THEN last.body[1].sentiment_score
                              ELSE old.sentiment_score
                 new_score == rescore_score(old_score, variance)
                 updated == [old EXCEPT !.sentiment_score = new_score,
                                        !.tags = rescore_tags(old.tags, new_score)]
             IN  dict_set(d, tenant_id,
                          dict_set(d[tenant_id], conversation_id, updated))

\* The store after run_rescore_pipeline(tenant_id, conversation_id, d).
run_rescore_pipeline(tenant_id, conversation_id, d, variance) ==
    LET tenant_db == dict_get_or_empty(d, tenant_id)
        existing_transcript == dict_get(tenant_db, conversation_id)
    IN  IF existing_transcript = None
        THEN d
        ELSE LET old == existing_transcript[1]
                 new_score == rescore_score(old.sentiment_score, variance)
                 updated == [old EXCEPT !.sentiment_score = new_score,
                                        !.tags = rescore_tags(old.tags, new_score)]
             IN  dict_set(d, tenant_id,
                          dict_set(d[tenant_id], conversation_id, updated))


----------------------------------------------------------------------------
(* Request handlers: the response, and the background task added if any *)

\* A background task as add_task records it (the id is given when it is queued).
Task(fn, tenant_id, conversation_id, text) ==
    [fn |-> fn, tenant_id |-> tenant_id,
     conversation_id |-> conversation_id, text |-> text]

Response(code, body, task) == [code |-> code, body |-> body, task |-> task]

Queued(message, job_id) ==
    [message |-> message, job_id |-> job_id, status |-> "QUEUED"]

\* Header(...): a required header that is absent fails the request's validation.
header_errors(h) == IF h = <<>> THEN {"x-tenant-id: Field required"} ELSE {}

\* The payload's validation: the validator's error, if it raises.
payload_errors(text) ==
    IF validate_text(text) = None THEN {} ELSE {validate_text(text)[1]}

\* An ingest that does not look at the value of the tenant header.
ingest_transcript_any_tenant(text, conversation_id, h) ==
    LET errors == header_errors(h) \cup payload_errors(text)
    IN  IF errors # {}
        THEN Response(422, [detail |-> errors], None)
        ELSE Response(202, Queued("Ingest started", conversation_id),
                      Some(Task("run_data_pipeline", h[1], conversation_id, text)))

\* POST /ingest.  The parameters are validated before the handler's body runs;
\* any error there is answered 422.
ingest_transcript(text, conversation_id, h) ==
    LET errors == header_errors(h) \cup payload_errors(text)
    IN  IF errors # {}
        THEN Response(422, [detail |-> errors], None)
        ELSE IF h[1] = ""
        THEN Response(400, [detail |-> {"Missing Tenant ID"}], None)
        ELSE Response(202, Queued("Ingest started", conversation_id),
                      Some(Task("run_data_pipeline", h[1], conversation_id, text)))

\* A fetch that finds the conversation under whichever tenant holds it.
get_result_any_tenant(conversation_id, h, d) ==
    IF header_errors(h) # {}
    THEN Response(422, [detail |-> header_errors(h)], None)
    ELSE LET holders == {t \in DOMAIN d : conversation_id \in DOMAIN d[t]}
         IN  IF holders = {}
             THEN Response(404, [detail |-> {"Item not found or processing"}], None)
             ELSE Response(200,
                           AgentResponse(d[CHOOSE t \in holders : TRUE][conversation_id]),
                           None)

\* GET /results/{conversation_id}
get_result(conversation_id, h, d) ==
    IF header_errors(h) # {}
    THEN Response(422, [detail |-> header_errors(h)], None)
    ELSE LET tenant_db == dict_get_or_empty(d, h[1])
             item == dict_get(tenant_db, conversation_id)
         IN  IF item = None
             THEN Response(404, [detail |-> {"Item not found or processing"}], None)
             ELSE Response(200, AgentResponse(item[1]), None)

\* A rescore that queues the task without looking for the record.
rescore_transcript_unchecked(conversation_id, h, d) ==
    IF header_errors(h) # {}
    THEN Response(422, [detail |-> header_errors(h)], None)
    ELSE Response(202, Queued("Re-score started", conversation_id),
                  Some(Task("run_rescore_pipeline", h[1], conversation_id, <<>>)))

\* POST /rescore/{conversation_id}
rescore_transcript(conversation_id, h, d) ==
    IF header_errors(h) # {}
    THEN Response(422, [detail |-> header_errors(h)], None)
    ELSE LET tenant_db == dict_get_or_empty(d, h[1])
         IN  IF conversation_id \notin DOMAIN tenant_db
             THEN Response(404, [detail |-> {"Transcript not found"}], None)
             ELSE Response(202, Queued("Re-score started", conversation_id),
                           Some(Task("run_rescore_pipeline", h[1], conversation_id, <<>>)))

RECURSIVE sum_len(_, _)
sum_len(d, ks) ==
    IF ks = {} THEN 0
    ELSE LET k == CHOOSE x \in ks : TRUE
         IN  Cardinality(DOMAIN d[k]) + sum_len(d, ks \ {k})

\* A dump that counts the tenants as the records.
debug_view_db_counts_tenants(d) ==
    Response(200,
             [database |-> d,
              tenant_count |-> Cardinality(DOMAIN d),
              total_records |-> Cardinality(DOMAIN d)],
             None)

\* GET /debug/db
debug_view_db(d) ==
    Response(200,
             [database |-> d,
              tenant_count |-> Cardinality(DOMAIN d),
              total_records |-> sum_len(d, DOMAIN d)],
             None)

----------------------------------------------------------------------------------------------------------------------------------------
(* The state machine *)

Keys == Tenants \X Convs

NoWriter == [fn |-> "none", text |-> <<>>]

Step(op, h, conversation_id, text, code, body, scheduled) ==
    [op |-> op, header |-> h, conversation_id |-> conversation_id, text |-> text,
     code |-> code, body |-> body, scheduled |-> scheduled]

\* The record the store d holds for (tenant_id, conversation_id), or None.
stored(d, tenant_id, conversation_id) ==
    dict_get(dict_get_or_empty(d, tenant_id), conversation_id)

\* The history variables: writer[k] is the pipeline that last wrote the record
\* of key k and the text of the last ingest written there; last is the last
\* step, a request with its response (code, body, tasks scheduled) or a
\* pipeline run with the record it found (body).
Init ==
    /\ db = EmptyDict
    /\ tasks = EmptyDict
    /\ nreq = 0
    /\ writer = [k \in Keys |-> NoWriter]
    /\ last = Step("start", <<>>, "", <<>>, 0, <<>>, 0)

\* The queued tasks are a bag: tasks[t] is the number of queued tasks with the
\* arguments t (tasks with the same arguments have the same effect).
bag_add(b, t) == dict_set(b, t, IF t \in DOMAIN b THEN b[t] + 1 ELSE 1)

bag_remove(b, t) ==
    IF b[t] = 1
    THEN [q \in DOMAIN b \ {t} |-> b[q]]
    ELSE dict_set(b, t, b[t] - 1)

RECURSIVE bag_size(_, _)
bag_size(b, ts) ==
    IF ts = {} THEN 0
    ELSE LET t == CHOOSE x \in ts : TRUE
         IN  b[t] + bag_size(b, ts \ {t})

\* The number of queued tasks.
NumQueued == bag_size(tasks, DOMAIN tasks)

\* A handler that adds its task twice.
add_task_twice(r) ==
    IF r.task = None
    THEN /\ tasks' = tasks
         /\ nreq' = nreq
    ELSE /\ nreq < MaxRequests
         /\ tasks' = bag_add(bag_add(tasks, r.task[1]), r.task[1])
         /\ nreq' = nreq + 1

\* background_tasks.add_task(...) for the task a response carries, if any.
add_task(r) ==
    IF r.task = None
    THEN /\ tasks' = tasks
         /\ nreq' = nreq
    ELSE /\ nreq < MaxRequests
         /\ tasks' = bag_add(tasks, r.task[1])
         /\ nreq' = nreq + 1

Scheduled(r) == IF r.task = None THEN 0 ELSE 1

IngestFrom(hs, cs, ts) ==
    \E h \in hs, conversation_id \in cs, text \in ts :
        LET r == ingest_transcript(text, conversation_id, h)
        IN  /\ add_task(r)
            /\ last' = Step("ingest", h, conversation_id, text, r.code, r.body,
                            Scheduled(r))
            /\ UNCHANGED <<db, writer>>

FetchFrom(hs, cs) ==
    \E h \in hs, conversation_id \in cs :
        LET r == get_result(conversation_id, h, db)
        IN  /\ last' = Step("fetch", h, conversation_id, <<>>, r.code, r.body, 0)
            /\ UNCHANGED <<db, tasks, nreq, writer>>

RescoreFrom(hs, cs) ==
    \E h \in hs, conversation_id \in cs :
        LET r == rescore_transcript(conversation_id, h, db)
        IN  /\ add_task(r)
            /\ last' = Step("rescore", h, conversation_id, <<>>, r.code, r.body,
                            Scheduled(r))
            /\ UNCHANGED <<db, writer>>

Debug ==
    LET r == debug_view_db(db)
    IN  /\ last' = Step("debug", <<>>, "", <<>>, r.code, r.body, 0)
        /\ UNCHANGED <<db, tasks, nreq, writer>>

\* A queued run_data_pipeline task wakes from its sleep and runs to its end.
DataPipelineRuns(t) ==
    /\ t \in DOMAIN tasks
    /\ t.fn = "run_data_pipeline"
    /\ \E variance \in EnrichVariances :
        db' = run_data_pipeline(t.tenant_id,
                                TranscriptPayload(t.conversation_id, t.text),
                                db, variance)
    /\ writer' = [writer EXCEPT ![<<t.tenant_id, t.conversation_id>>] =
                     [fn |-> "run_data_pipeline", text |-> t.text]]
    /\ last' = Step("run_data_pipeline", Some(t.tenant_id), t.conversation_id,
                    t.text, 0, stored(db, t.tenant_id, t.conversation_id), 0)
    /\ tasks' = bag_remove(tasks, t)
    /\ UNCHANGED nreq

\* A queued run_rescore_pipeline task wakes from its sleep and runs to its end.
RescorePipelineRuns(t) ==
    /\ t \in DOMAIN tasks
    /\ t.fn = "run_rescore_pipeline"
    /\ \E variance \in RescoreVariances :
        db' = run_rescore_pipeline(t.tenant_id, t.conversation_id, db, variance)
    /\ writer' = IF stored(db, t.tenant_id, t.conversation_id) # None
                 THEN [writer EXCEPT ![<<t.tenant_id, t.conversation_id>>].fn =
                          "run_rescore_pipeline"]
                 ELSE writer
    /\ last' = Step("run_rescore_pipeline", Some(t.tenant_id), t.conversation_id,
                    <<>>, 0, stored(db, t.tenant_id, t.conversation_id), 0)
    /\ tasks' = bag_remove(tasks, t)
    /\ UNCHANGED nreq

PipelineRuns(t) == DataPipelineRuns(t) \/ RescorePipelineRuns(t)

DataPipeline == \E t \in DOMAIN tasks : DataPipelineRuns(t)
RescorePipeline == \E t \in DOMAIN tasks : RescorePipelineRuns(t)

\* Requests of both tenants on both conversations, with two texts that pass;
\* fetches and rescores also with an empty tenant header.
TenantHeaders == {<<t>> : t \in Tenants}
QueryHeaders == TenantHeaders \cup {<<"">>}
Ingest == IngestFrom(TenantHeaders, Convs, {TextHi, TextMoney})
Fetch == FetchFrom(QueryHeaders, Convs)
Rescore == RescoreFrom(QueryHeaders, Convs)

Next == Ingest \/ Fetch \/ Rescore \/ Debug \/ DataPipeline \/ RescorePipeline

Spec == Init /\ [][Next]_vars

\* Every text, with the header absent, empty or naming a tenant, on one conversation.
IngestAnyText == IngestFrom({<<>>, <<"">>, <<"acme">>}, {"c1"}, Texts)
FetchOne == FetchFrom({<<"acme">>}, {"c1"})
RescoreOne == RescoreFrom({<<"acme">>}, {"c1"})

NextText ==
    IngestAnyText \/ FetchOne \/ RescoreOne \/ Debug \/ DataPipeline \/ RescorePipeline

TextSpec == Init /\ [][NextText]_vars

\* Ingests with the header absent, empty or naming either tenant, on both
\* conversations, with a blank text and a text that passes.
IngestAnyHeader == IngestFrom(Headers, Convs, {TextBlank, TextHi})

NextHeader ==
    IngestAnyHeader \/ Fetch \/ Rescore \/ Debug \/ DataPipeline \/ RescorePipeline

HeaderSpec == Init /\ [][NextHeader]_vars

\* Requests of both tenants on both conversations with one text, under fair
\* scheduling: the event loop runs every task whose sleep is over, so no queued
\* task waits forever.
IngestHi == IngestFrom(TenantHeaders, Convs, {TextHi})

FetchFair == FetchFrom(TenantHeaders, Convs)
RescoreFair == RescoreFrom(TenantHeaders, Convs)

NextFair == IngestHi \/ FetchFair \/ RescoreFair \/ Debug \/ DataPipeline \/ RescorePipeline

FairTasks ==
    {Task("run_data_pipeline", k[1], k[2], TextHi) : k \in Keys}
        \cup {Task("run_rescore_pipeline", k[1], k[2], <<>>) : k \in Keys}

FairSpec ==
    Init /\ [][NextFair]_vars /\ \A t \in FairTasks : WF_vars(PipelineRuns(t))

----------------------------------------------------------------------------
(* What a client of each tenant observes *)

\* The summary an enrichment of text writes.
SummaryOf(text) == <<"Processed text length ", len(text), ".">>

\* Some pipeline of tenant t has written a record for conversation c.
Written(t, c) == writer[<<t, c>>].fn # "none"

\* C1: tenant isolation.  A fetch of conversation c under tenant t2 answers
\* 404 as long as no pipeline of t2 has completed for c, whatever the other
\* tenants hold for c; when it answers 200 the record is the one stored under
\* t2, written by a pipeline that ran under t2 from a text ingested under t2.
C1_TenantIsolation ==
    \A t2 \in Tenants, c \in Convs :
        LET r == get_result(c, Some(t2), db)
        IN  /\ ~Written(t2, c) => r.code = 404
            /\ r.code = 200 =>
                /\ Written(t2, c)
                /\ stored(db, t2, c) # None
                /\ stored(db, t2, c)[1].tenant_id = t2
                /\ r.body = AgentResponse(stored(db, t2, c)[1])
                /\ r.body.conversation_id = c
                /\ r.body.summary = SummaryOf(writer[<<t2, c>>].text)

\* Tenant "other" fetches c1 and gets 404 while "acme" holds a record for c1.
C1_Witness ==
    /\ last.op = "fetch"
    /\ last.header = Some("other")
    /\ last.conversation_id = "c1"
    /\ last.code = 404
    /\ stored(db, "acme", "c1") # None
    /\ stored(db, "other", "c1") = None

\* A text that is empty once stripped, or longer than the limit as sent.
BlankText(text) == \A i \in 1..Len(text) : text[i][1] \in Whitespace
OverLong(text) == len(text) > MaxTextLen
RejectedText(text) == BlankText(text) \/ OverLong(text)

\* C2: an ingest whose text is blank or longer than 5000 characters is
\* answered with a validation error (422), schedules no pipeline and leaves
\* the store unchanged; no queued task and no stored record ever comes from
\* such a text.
C2_RejectedTextLeavesNoTrace ==
    /\ [](/\ (last.op = "ingest" /\ RejectedText(last.text)) =>
                (last.code = 422 /\ last.scheduled = 0)
          /\ \A t \in DOMAIN tasks : ~RejectedText(t.text) \/ t.fn # "run_data_pipeline"
          /\ \A k \in Keys : Written(k[1], k[2]) => ~RejectedText(writer[k].text))
    /\ [][(last'.op = "ingest" /\ RejectedText(last'.text)) =>
            (db' = db /\ tasks' = tasks /\ nreq' = nreq /\ writer' = writer)]_vars

\* An over-long text padded with blanks is rejected while the store holds a
\* record and a task is queued.
C2_Witness ==
    /\ last.op = "ingest"
    /\ last.text = TextPadded
    /\ last.header = Some("acme")
    /\ last.code = 422
    /\ db # EmptyDict
    /\ NumQueued > 0

\* C3: a rescore request for a tenant and conversation with no record in the
\* store is answered 404, schedules no pipeline and leaves the store unchanged.
C3_RescoreMissingIsNotFound ==
    [][(/\ last'.op = "rescore"
        /\ last'.header # <<>>
        /\ stored(db, last'.header[1], last'.conversation_id) = None) =>
            (/\ last'.code = 404
             /\ last'.scheduled = 0
             /\ db' = db
             /\ tasks' = tasks
             /\ nreq' = nreq)]_vars

\* A rescore of c1 under "other" is refused while "acme" holds c1 and while
\* an ingest of c1 under "other" is still queued.
C3_Witness ==
    /\ last.op = "rescore"
    /\ last.header = Some("other")
    /\ last.conversation_id = "c1"
    /\ last.code = 404
    /\ stored(db, "acme", "c1") # None
    /\ \E q \in DOMAIN tasks : /\ q.fn = "run_data_pipeline"
                               /\ q.tenant_id = "other"
                               /\ q.conversation_id = "c1"

\* A fetch of conversation c under tenant t finds a record.
Fetchable(t, c) == get_result(c, Some(t), db).code = 200

\* A run_data_pipeline task for (t, c) is queued.
IngestQueued(t, c) ==
    \E q \in DOMAIN tasks : /\ q.fn = "run_data_pipeline"
                            /\ q.tenant_id = t
                            /\ q.conversation_id = c

\* C4: an ingest whose tenant header is absent or empty is answered 400,
\* schedules no pipeline and leaves the store unchanged.
C4_MissingTenantIs400 ==
    /\ []((last.op = "ingest" /\ last.header \in {<<>>, <<"">>}) =>
            (last.code = 400 /\ last.scheduled = 0))
    /\ [][(last'.op = "ingest" /\ last'.header \in {<<>>, <<"">>}) =>
            (db' = db /\ tasks' = tasks /\ nreq' = nreq)]_vars

\* The texts of the inputs that hold the substring "money".
MoneyTexts == {TextMoney}

\* C5: while the enrichment pipeline is the last pipeline that completed on
\* (t, c), a fetch of c under t returns a score in [0.7, 0.9], status
\* COMPLETED, and tags [finance, risk] when the ingested text holds "money",
\* [general] otherwise, whatever record the key held before.
C5_EnrichmentResult ==
    \A k \in Keys :
        writer[k].fn = "run_data_pipeline" =>
            LET r == get_result(k[2], Some(k[1]), db)
            IN  /\ r.code = 200
                /\ r.body.sentiment_score \in 700..900
                /\ r.body.status = "COMPLETED"
                /\ r.body.tags = IF writer[k].text \in MoneyTexts
                                 THEN <<"finance", "risk">>
                                 ELSE <<"general">>

\* An enrichment of a "money" text has just overwritten a record that a
\* rescore had tagged review_required.
C5_Witness ==
    /\ last.op = "run_data_pipeline"
    /\ last.text = TextMoney
    /\ last.body # None
    /\ last.body[1].tags = <<"general", "review_required">>
    /\ last.body[1].sentiment_score < 500

\* The records stored, as a set.
StoredRecords == {db[t][c] : <<t, c>> \in {k \in Keys : stored(db, k[1], k[2]) # None}}

\* C6: the score of every stored record lies in [0.0, 1.0].
C6_ScoreInUnitInterval ==
    \A rec \in StoredRecords : rec.sentiment_score \in 0..1000

\* A rescore has just taken a score of 0.2 down to the lower end of the range.
C6_Witness ==
    /\ last.op = "run_rescore_pipeline"
    /\ last.body # None
    /\ last.body[1].sentiment_score = 200
    /\ stored(db, last.header[1], last.conversation_id)[1].sentiment_score = 0

\* The number of times x occurs in the sequence s.
Count(x, s) == Cardinality({i \in 1..Len(s) : s[i] = x})

\* C7: no stored record holds the tag review_required more than once, and
\* every stored record with a score below 0.5 holds it exactly once.
C7_ReviewRequiredOnce ==
    \A rec \in StoredRecords :
        /\ Count("review_required", rec.tags) <= 1
        /\ rec.sentiment_score < 500 => Count("review_required", rec.tags) = 1

\* A second rescore has left a record already tagged review_required below 0.5.
C7_Witness ==
    /\ last.op = "run_rescore_pipeline"
    /\ last.body # None
    /\ InSeq("review_required", last.body[1].tags)
    /\ stored(db, last.header[1], last.conversation_id)[1].sentiment_score < 500

\* The request of step st passes the handler's checks in the store d.
Accepted(st, d) ==
    /\ st.header # <<>>
    /\ \/ /\ st.op = "ingest"
          /\ st.header[1] # ""
          /\ ~RejectedText(st.text)
       \/ /\ st.op = "rescore"
          /\ stored(d, st.header[1], st.conversation_id) # None

PipelineOps == {"run_data_pipeline", "run_rescore_pipeline"}
HandlerOps == {"ingest", "fetch", "rescore", "debug"}

\* C8: only pipeline runs change the store; the four request handlers leave
\* it unchanged; an accepted ingest or rescore is answered 202 with job_id
\* the conversation identifier and status QUEUED, and adds exactly one task;
\* and a key that no pipeline has written yet is answered 404 by every fetch.
C8_OnlyPipelinesMutateStore ==
    /\ [](\A k \in Keys :
            ~Written(k[1], k[2]) => get_result(k[2], Some(k[1]), db).code = 404)
    /\ [][/\ db' # db => last'.op \in PipelineOps
          /\ last'.op \in HandlerOps => db' = db
          /\ (last'.op \in {"ingest", "rescore"} /\ Accepted(last', db)) =>
                /\ last'.code = 202
                /\ last'.body.job_id = last'.conversation_id
                /\ last'.body.status = "QUEUED"
                /\ last'.scheduled = 1
                /\ bag_size(tasks', DOMAIN tasks') = NumQueued + 1
          /\ (last'.op \in HandlerOps /\ ~Accepted(last', db)) =>
                tasks' = tasks]_vars

\* A fetch answers 404 for a key whose first ingest is acknowledged and whose
\* enrichment pipeline has not run yet.
C8_Witness ==
    /\ last.op = "fetch"
    /\ last.code = 404
    /\ last.header \in TenantHeaders
    /\ IngestQueued(last.header[1], last.conversation_id)
    /\ ~Written(last.header[1], last.conversation_id)

\* C9: under fair scheduling of the background tasks every scheduled pipeline
\* eventually runs (the n-th task scheduled is followed by the n-th run), a
\* task leaves the queue only by running (nothing cancels it), and every
\* accepted ingest for (t, c) is eventually followed by a state in which a
\* fetch of c under t returns a record.
C9_PipelinesRunToCompletion ==
    /\ \A n \in 1..MaxRequests : (nreq >= n) ~> (nreq - NumQueued >= n)
    /\ \A k \in Keys : IngestQueued(k[1], k[2]) ~> Fetchable(k[1], k[2])
    /\ [][\A t \in DOMAIN tasks :
            (t \notin DOMAIN tasks' \/ tasks'[t] < tasks[t]) =>
                /\ tasks' = bag_remove(tasks, t)
                /\ last'.op = t.fn
                /\ last'.header = Some(t.tenant_id)
                /\ last'.conversation_id = t.conversation_id]_vars

\* An ingest was accepted, its pipeline has run, and the record is fetched.
C9_Witness ==
    /\ last.op = "fetch"
    /\ last.code = 200
    /\ nreq > 0
    /\ NumQueued = 0

\* C10 as stated: a rescore pipeline that runs while the enrichment pipeline
\* of an ingest of the same key is still queued sees the record absent and
\* does nothing (the store is unchanged).
C10_RescoreBeforeEnrichmentNoOps ==
    [][(/\ last'.op = "run_rescore_pipeline"
        /\ IngestQueued(last'.header[1], last'.conversation_id)) =>
            (last'.body = None /\ db' = db)]_vars

\* C10 as amended: a rescore is only queued for a key that holds a record and
\* records are never removed, so every queued rescore task finds its record:
\* a rescore pipeline that runs before a queued enrichment of the same key
\* updates the record of the earlier enrichment, and never sees it absent.
C10_RescoreAlwaysFindsRecord ==
    /\ [](/\ \A t \in DOMAIN tasks :
                t.fn = "run_rescore_pipeline" =>
                    stored(db, t.tenant_id, t.conversation_id) # None
          /\ last.op = "run_rescore_pipeline" => last.body # None)
    /\ [][last'.op = "run_rescore_pipeline" =>
            /\ last'.body = stored(db, last'.header[1], last'.conversation_id)
            /\ stored(db', last'.header[1], last'.conversation_id) # None
            /\ stored(db', last'.header[1], last'.conversation_id)[1].summary =
                   last'.body[1].summary]_vars

\* A rescore pipeline has run, and found a record, while an enrichment of the
\* same key was queued.
C10_Witness ==
    /\ last.op = "run_rescore_pipeline"
    /\ last.body # None
    /\ IngestQueued(last.header[1], last.conversation_id)

\* An ingest step sent with the header of a tenant.
TenantIngest(st) == st.op = "ingest" /\ st.header \in TenantHeaders

\* C11 as stated: an ingest (sent with a tenant header) passes validation
\* exactly when the length of its text after trimming is between 1 and 5000.
C11_AcceptedIffTrimmedLength ==
    TenantIngest(last) =>
        (last.code = 202 <=> len(strip(last.text)) \in 1..5000)

\* C11 as amended: an ingest passes validation exactly when its text is not
\* empty after trimming and its length as sent, blanks included, is at most
\* 5000; otherwise it is answered 422.
C11_AcceptedIffTrimmedNonEmptyAndRawLength ==
    TenantIngest(last) =>
        /\ last.code = 202 <=> (len(strip(last.text)) >= 1 /\ len(last.text) <= 5000)
        /\ last.code \in {202, 422}
        /\ last.scheduled = IF last.code = 202 THEN 1 ELSE 0

\* A text of exactly 5000 characters is accepted.
C11_Witness ==
    /\ TenantIngest(last)
    /\ last.text = TextMax
    /\ last.code = 202
    /\ IngestQueued("acme", "c1")

\* The sequence s is a prefix of the sequence u.
IsPrefix(s, u) == Len(s) <= Len(u) /\ SubSeq(u, 1, Len(s)) = s

\* C12: a rescore pipeline run on (t, c) changes only the score and the tags
\* of that record: conversation identifier, summary, status and tenant
\* identifier stay, the old tags are a prefix of the new ones with at most
\* review_required appended, and the record of every other key is unchanged.
C12_RescoreChangesOnlyScoreAndTags ==
    [][last'.op = "run_rescore_pipeline" =>
        LET t == last'.header[1]
            c == last'.conversation_id
            old == stored(db, t, c)
            new == stored(db', t, c)
        IN  /\ old # None
            /\ new # None
            /\ new[1].conversation_id = old[1].conversation_id
            /\ new[1].summary = old[1].summary
            /\ new[1].status = old[1].status
            /\ new[1].tenant_id = old[1].tenant_id
            /\ IsPrefix(old[1].tags, new[1].tags)
            /\ new[1].tags \in {old[1].tags, Append(old[1].tags, "review_required")}
            /\ DOMAIN db' = DOMAIN db
            /\ \A x \in DOMAIN db : DOMAIN db'[x] = DOMAIN db[x]
            /\ \A x \in DOMAIN db : \A y \in DOMAIN db[x] :
                    <<x, y>> # <<t, c>> => db'[x][y] = db[x][y]]_vars

\* A rescore has just appended review_required to the tags [finance, risk]
\* of one record while the store holds a record under another key.
C12_Witness ==
    /\ last.op = "run_rescore_pipeline"
    /\ last.body # None
    /\ last.body[1].tags = <<"finance", "risk">>
    /\ stored(db, last.header[1], last.conversation_id)[1].tags =
           <<"finance", "risk", "review_required">>
    /\ Cardinality(StoredRecords) >= 2

\* A rescore request of conversation c under tenant t is accepted in store d.
RescoreAccepted(t, c, d) == rescore_transcript(c, Some(t), d).code = 202

\* C13: records are never deleted.  A key that holds a record holds one after
\* every step; a fetch that succeeds keeps succeeding and a rescore request
\* that is accepted keeps being accepted.
C13_RecordsNeverDeleted ==
    [][\A k \in Keys :
        /\ stored(db, k[1], k[2]) # None => stored(db', k[1], k[2]) # None
        /\ get_result(k[2], Some(k[1]), db).code = 200 =>
               get_result(k[2], Some(k[1]), db').code = 200
        /\ RescoreAccepted(k[1], k[2], db) => RescoreAccepted(k[1], k[2], db')]_vars

\* A rescore of a key is accepted again after an earlier rescore of the key
\* has run.
C13_Witness ==
    /\ last.op = "rescore"
    /\ last.code = 202
    /\ last.header = Some("acme")
    /\ last.conversation_id = "c1"
    /\ writer[<<"acme", "c1">>].fn = "run_rescore_pipeline"

\* The score the store d holds for key k (a key that holds a record).
ScoreAt(d, k) == stored(d, k[1], k[2])[1].sentiment_score

\* C14: the read-modify-write of a rescore pipeline is atomic.  The score of
\* a record changes only in a pipeline run on its own key, and a rescore run
\* on a key whose last pipeline run was a rescore too (no enrichment in
\* between) reads the score that run left in the store and writes that
\* score plus a perturbation in [-0.5, 0.1], clamped: no update is lost or
\* computed from an earlier score.
C14_RescoreIsAtomic ==
    [][\A k \in Keys :
        /\ (/\ stored(db, k[1], k[2]) # None
            /\ stored(db', k[1], k[2]) # stored(db, k[1], k[2])) =>
                (/\ last'.op \in PipelineOps
                 /\ last'.header = Some(k[1])
                 /\ last'.conversation_id = k[2])
        /\ (/\ last'.op = "run_rescore_pipeline"
            /\ last'.header = Some(k[1])
            /\ last'.conversation_id = k[2]
            /\ writer[k].fn = "run_rescore_pipeline") =>
                (/\ last'.body = stored(db, k[1], k[2])
                 /\ \E d \in -500..100 :
                        ScoreAt(db', k) = Max(0, Min(1000, ScoreAt(db, k) + d)))]_vars

\* The second of two rescores of a key has run: it read 0.2, the score the
\* first had written, and wrote 0.3.
C14_Witness ==
    /\ last.op = "run_rescore_pipeline"
    /\ last.body # None
    /\ last.body[1].sentiment_score = 200
    /\ InSeq("review_required", last.body[1].tags)
    /\ ScoreAt(db, <<last.header[1], last.conversation_id>>) = 300
    /\ NumQueued = 0

\* C15: a rescore pipeline run that finds a record with score s writes
\* min(1.0, max(0.0, s + d)) for a perturbation d in [-0.5, 0.1]; one rescore
\* raises the score by at most 0.1 and lowers it by at most 0.5.
C15_RescorePerturbationBounded ==
    [][(last'.op = "run_rescore_pipeline" /\ last'.body # None) =>
        LET s == last'.body[1].sentiment_score
            new == ScoreAt(db', <<last'.header[1], last'.conversation_id>>)
        IN  /\ \E d \in -500..100 :
                    new = (IF s + d > 1000 THEN 1000 ELSE IF s + d < 0 THEN 0 ELSE s + d)
            /\ new - s <= 100
            /\ s - new <= 500]_vars

\* A rescore has just lowered a score of 0.9 by the full 0.5.
C15_Witness ==
    /\ last.op = "run_rescore_pipeline"
    /\ last.body # None
    /\ last.body[1].sentiment_score = 900
    /\ ScoreAt(db, <<last.header[1], last.conversation_id>>) = 400

\* C16: every record stored under (t, c) has tenant identifier t, conversation
\* identifier c and status COMPLETED; no tenant's sub-mapping is empty and no
\* record is stored under an empty tenant identifier.
C16_RecordsMatchTheirKey ==
    \A t \in DOMAIN db :
        /\ t # ""
        /\ DOMAIN db[t] # {}
        /\ \A c \in DOMAIN db[t] :
            /\ db[t][c].tenant_id = t
            /\ db[t][c].conversation_id = c
            /\ db[t][c].status = "COMPLETED"

\* An ingest with an empty tenant header is refused while the store holds
\* records of both tenants.
C16_Witness ==
    /\ last.op = "ingest"
    /\ last.header = Some("")
    /\ last.text = TextHi
    /\ last.code = 400
    /\ DOMAIN db = Tenants
    /\ stored(db, "acme", "c2") # None

\* The keys that an enrichment pipeline has written.
WrittenKeys == {k \in Keys : Written(k[1], k[2])}

\* C17: the debug dump returns the whole store, with total_records the number
\* of keys for which an enrichment pipeline has completed and tenant_count
\* the number of tenants among those keys.
C17_DebugDumpCounts ==
    LET r == debug_view_db(db)
    IN  /\ r.code = 200
        /\ r.body.database = db
        /\ \A k \in Keys : Written(k[1], k[2]) <=> stored(r.body.database, k[1], k[2]) # None
        /\ r.body.total_records = Cardinality(WrittenKeys)
        /\ r.body.tenant_count = Cardinality({k[1] : k \in WrittenKeys})
        /\ last.op = "debug" => last.body = r.body

\* A dump of a store that holds three records of two tenants.
C17_Witness ==
    /\ last.op = "debug"
    /\ last.body.total_records = 3
    /\ last.body.tenant_count = 2

====
